---- MODULE Spec2Model ----
(***************************************************************************)
(* Philippines Barangay Explorer API (src/main.py).                        *)
(*                                                                         *)
(* The program serves read-only queries over barangay.BARANGAY, a nested   *)
(* insertion-ordered mapping region -> province -> municipality -> list of *)
(* barangay names.  Every handler is an `async def` without an `await`, so *)
(* the event loop runs each one to completion: a handler is one atomic     *)
(* step.  The state is the dataset and the response the last handler       *)
(* produced, which the framework then sends.                               *)
(*                                                                         *)
(* A Python str is a sequence of one-character strings.  A Python dict is  *)
(* [type |-> "dict", items |-> <<[k |-> key, v |-> value], ...>>] with     *)
(* distinct keys in insertion order; a Python list is                      *)
(* [type |-> "list", items |-> <<element, ...>>].                          *)
(***************************************************************************)
EXTENDS Integers, Sequences, FiniteSets, TLC

VARIABLES BARANGAY, response

vars == <<BARANGAY, response>>

\* ------------------------------------------------------------ bounds ----
\* Number of insertions that build a dataset.
MaxRows == 2
\* Length of a search query.
MaxQueryLen == 2

\* ----------------------------------------------------------- strings ----
R1 == <<"R", "1">>
R2 == <<"R", "2">>
P1 == <<"P", "1">>
P2 == <<"P", "2">>
M1 == <<"M", "1">>
M2 == <<"M", "2">>

RegionKeys == {R1, R2}
ProvinceKeys == {P1, P2}
MunicipalityKeys == {M1, M2}

\* Characters of queries: one letter in both cases.
Chars == {"b", "B"}

\* Barangay names of the datasets: one that holds the letter twice, in two
\* cases, and one that holds it once, after a character no query has.
Names == {<<"B", "b">>, <<"a", "B">>}

BoundedSeq(S, n) == UNION {[1..k -> S] : k \in 0..n}

Queries == BoundedSeq(Chars, MaxQueryLen)

\* str.lower(), character by character.
LowerChar(c) ==
    CASE c = "A" -> "a"
      [] c = "B" -> "b"
      [] c = "M" -> "m"
      [] c = "P" -> "p"
      [] c = "R" -> "r"
      [] OTHER -> c

Lower(s) == [i \in 1..Len(s) |-> LowerChar(s[i])]

StartsWith(y, x) == Len(x) <= Len(y) /\ SubSeq(y, 1, Len(x)) = x

\* `x in y` for two str: x occurs in y as a contiguous run.
RECURSIVE StrIn(_, _)
StrIn(x, y) ==
    IF StartsWith(y, x) THEN TRUE
    ELSE IF y = <<>> THEN FALSE
    ELSE StrIn(x, Tail(y))

\* ------------------------------------------------- dicts and lists ------
EmptyDict == [type |-> "dict", items |-> <<>>]
EmptyList == [type |-> "list", items |-> <<>>]

IsDict(c) == c.type = "dict"
IsList(c) == c.type = "list"

\* len(c)
PyLen(c) == Len(c.items)

\* `k in c`: a key of a dict, an element of a list.
Contains(c, k) ==
    IF IsDict(c)
    THEN \E i \in 1..Len(c.items) : c.items[i].k = k
    ELSE \E i \in 1..Len(c.items) : c.items[i] = k

\* d[k] of a dict that has the key k.
Get(d, k) == d.items[CHOOSE i \in 1..Len(d.items) : d.items[i].k = k].v

\* list(d.keys())
Keys(d) == [type |-> "list", items |-> [i \in 1..Len(d.items) |-> d.items[i].k]]

\* d[k] = v: a present key keeps its position, a new key goes last.
Put(d, k, v) ==
    IF Contains(d, k)
    THEN [d EXCEPT !.items =
            [i \in 1..Len(d.items) |->
                IF d.items[i].k = k THEN [k |-> k, v |-> v] ELSE d.items[i]]]
    ELSE [d EXCEPT !.items = Append(@, [k |-> k, v |-> v])]

\* -------------------------------------------------------- datasets ------
\* What barangay.BARANGAY can hold.  The handlers guard two places with
\* isinstance: a province-level value that is no dict (here a list of names
\* placed directly under the region) and a municipality-level value that is
\* no list (here a dict).
BadProvinceValue == [type |-> "list", items |-> <<M1>>]
BadMunicipalityValue == EmptyDict

\* The dataset d after d.setdefault(path[1], {})...setdefault(path[n], leaf);
\* a path that runs into a value that is no dict changes nothing.
RECURSIVE Ensure(_, _, _)
Ensure(c, path, leaf) ==
    IF ~IsDict(c) THEN c
    ELSE IF Len(path) = 1
    THEN (IF Contains(c, path[1]) THEN c ELSE Put(c, path[1], leaf))
    ELSE LET k == path[1]
             child == IF Contains(c, k) THEN Get(c, k) ELSE EmptyDict
         IN  Put(c, k, Ensure(child, Tail(path), leaf))

\* The dataset d after d[r][p][m].append(n), creating the path as needed.
AppendBarangay(d, r, p, m, n) ==
    LET e == Ensure(d, <<r, p, m>>, EmptyList)
    IN  IF /\ IsDict(Get(e, r))
           /\ Contains(Get(e, r), p) /\ IsDict(Get(Get(e, r), p))
           /\ Contains(Get(Get(e, r), p), m)
           /\ IsList(Get(Get(Get(e, r), p), m))
        THEN LET rv == Get(e, r)
                 pv == Get(rv, p)
                 mv == Get(pv, m)
             IN  Put(e, r, Put(rv, p,
                     Put(pv, m, [mv EXCEPT !.items = Append(@, n)])))
        ELSE e

\* One insertion into a dataset; a field a kind does not use holds a fixed key.
Rows ==
    [kind : {"region"}, r : RegionKeys, p : {P1}, m : {M1}, n : {<<>>}]
    \cup [kind : {"province", "badprovince"},
          r : RegionKeys, p : ProvinceKeys, m : {M1}, n : {<<>>}]
    \cup [kind : {"municipality", "badmunicipality"},
          r : RegionKeys, p : ProvinceKeys, m : MunicipalityKeys, n : {<<>>}]
    \cup [kind : {"barangay"},
          r : RegionKeys, p : ProvinceKeys, m : MunicipalityKeys, n : Names]

Insert(d, row) ==
    CASE row.kind = "region" -> Ensure(d, <<row.r>>, EmptyDict)
      [] row.kind = "province" -> Ensure(d, <<row.r, row.p>>, EmptyDict)
      [] row.kind = "badprovince" ->
            Ensure(d, <<row.r, row.p>>, BadProvinceValue)
      [] row.kind = "municipality" ->
            Ensure(d, <<row.r, row.p, row.m>>, EmptyList)
      [] row.kind = "badmunicipality" ->
            Ensure(d, <<row.r, row.p, row.m>>, BadMunicipalityValue)
      [] row.kind = "barangay" ->
            AppendBarangay(d, row.r, row.p, row.m, row.n)

\* The datasets built by at most n insertions.
RECURSIVE DatasetsOf(_)
DatasetsOf(n) ==
    IF n = 0 THEN {EmptyDict}
    ELSE LET prev == DatasetsOf(n - 1)
         IN  prev \cup {Insert(d, row) : d \in prev, row \in Rows}

Datasets == DatasetsOf(MaxRows)

\* ------------------------------------------------------- responses ------
NoResponse == [op |-> "none", args |-> <<>>, status |-> 0]

\* A returned value: the framework answers 200 with it.
Ok(op, args, body) == [op |-> op, args |-> args, status |-> 200, body |-> body]

\* NotFound with a message that leaves out the parent of the missing key.
NotFound_missing_only(op, args, template, values) ==
    [op |-> op, args |-> args, status |-> 404,
     detail |-> [template |-> template, values |-> <<values[1]>>]]

\* raise HTTPException(status_code=404, detail=f"..."): the message is its
\* template and the values interpolated into it, in order.
NotFound(op, args, template, values) ==
    [op |-> op, args |-> args, status |-> 404,
     detail |-> [template |-> template, values |-> values]]

\* An exception no handler catches: the framework answers 500.
Unhandled(op, args, exception) ==
    [op |-> op, args |-> args, status |-> 500, exception |-> exception]

\* -------------------------------------------------------- handlers ------
\* GET /regions
get_regions_return == Ok("get_regions", <<>>, Keys(BARANGAY))

\* GET /regions/{region_name}/provinces
get_provinces_return(region_name) ==
    LET args == <<region_name>>
    IN  IF ~Contains(BARANGAY, region_name)
        THEN NotFound("get_provinces", args, "Region", <<region_name>>)
        ELSE Ok("get_provinces", args, Keys(Get(BARANGAY, region_name)))

\* GET /regions/{region_name}/provinces/{province_name}/municipalities
get_municipalities_return(region_name, province_name) ==
    LET args == <<region_name, province_name>>
        op == "get_municipalities"
    IN  IF ~Contains(BARANGAY, region_name)
        THEN NotFound(op, args, "Region", <<region_name>>)
        ELSE IF ~Contains(Get(BARANGAY, region_name), province_name)
        THEN NotFound(op, args, "Province", <<province_name, region_name>>)
        ELSE LET municipalities == Get(Get(BARANGAY, region_name), province_name)
             IN  IF IsDict(municipalities)
                 THEN Ok(op, args, Keys(municipalities))
                 \* a list has no keys()
                 ELSE Unhandled(op, args, "AttributeError")

\* get_barangays reading the region with BARANGAY.get(region_name, {}): a
\* missing region is reported as a missing province.
get_barangays_return_region_unchecked(region_name, province_name, municipality_name) ==
    LET args == <<region_name, province_name, municipality_name>>
        op == "get_barangays"
        provinces == IF Contains(BARANGAY, region_name)
                     THEN Get(BARANGAY, region_name) ELSE EmptyDict
    IN  IF ~Contains(provinces, province_name)
        THEN NotFound(op, args, "Province", <<province_name, region_name>>)
        ELSE LET municipalities == Get(provinces, province_name)
             IN  IF ~Contains(municipalities, municipality_name)
                 THEN NotFound(op, args, "Municipality",
                               <<municipality_name, province_name>>)
                 ELSE IF IsDict(municipalities)
                 THEN Ok(op, args, Get(municipalities, municipality_name))
                 ELSE Unhandled(op, args, "TypeError")

\* GET .../municipalities/{municipality_name}/barangays
get_barangays_return(region_name, province_name, municipality_name) ==
    LET args == <<region_name, province_name, municipality_name>>
        op == "get_barangays"
    IN  IF ~Contains(BARANGAY, region_name)
        THEN NotFound(op, args, "Region", <<region_name>>)
        ELSE IF ~Contains(Get(BARANGAY, region_name), province_name)
        THEN NotFound(op, args, "Province", <<province_name, region_name>>)
        ELSE LET municipalities == Get(Get(BARANGAY, region_name), province_name)
             IN  IF ~Contains(municipalities, municipality_name)
                 THEN NotFound(op, args, "Municipality",
                               <<municipality_name, province_name>>)
                 ELSE IF IsDict(municipalities)
                 THEN Ok(op, args, Get(municipalities, municipality_name))
                 \* a list is not indexed by a str
                 ELSE Unhandled(op, args, "TypeError")

\* The filter with the query compared as typed, not lowercased.
matching_barangays_query_as_typed(barangays, barangay_name) ==
    SelectSeq(barangays, LAMBDA b : StrIn(barangay_name, Lower(b)))

\* The filter with an empty query matching nothing.
matching_barangays_empty_matches_none(barangays, barangay_name) ==
    IF barangay_name = <<>> THEN <<>>
    ELSE SelectSeq(barangays, LAMBDA b : StrIn(Lower(barangay_name), Lower(b)))

\* [b for b in barangays if barangay_name.lower() in b.lower()]
matching_barangays(barangays, barangay_name) ==
    SelectSeq(barangays, LAMBDA b : StrIn(Lower(barangay_name), Lower(b)))

\* The records search_barangay appends for one municipality.
MunicipalityResults(region_name, province_name, municipality_name, barangays, barangay_name) ==
    IF IsList(barangays)
    THEN LET matching == matching_barangays(barangays.items, barangay_name)
         IN  [i \in 1..Len(matching) |->
                [barangay |-> matching[i], municipality |-> municipality_name,
                 province |-> province_name, region |-> region_name]]
    ELSE <<>>

\* The loop over municipalities with each municipality's records put in
\* front of the results instead of appended.
RECURSIVE ProvinceResults_prepend(_, _, _, _, _)
ProvinceResults_prepend(region_name, province_name, municipalities, i, barangay_name) ==
    IF i > Len(municipalities.items) THEN <<>>
    ELSE ProvinceResults_prepend(region_name, province_name, municipalities, i + 1,
                                 barangay_name)
         \o MunicipalityResults(region_name, province_name, municipalities.items[i].k,
                                municipalities.items[i].v, barangay_name)

\* for municipality_name, barangays in municipalities.items(), from entry i on.
RECURSIVE ProvinceResults(_, _, _, _, _)
ProvinceResults(region_name, province_name, municipalities, i, barangay_name) ==
    IF i > Len(municipalities.items) THEN <<>>
    ELSE MunicipalityResults(region_name, province_name, municipalities.items[i].k,
                             municipalities.items[i].v, barangay_name)
         \o ProvinceResults(region_name, province_name, municipalities, i + 1,
                            barangay_name)

\* for province_name, municipalities in provinces.items(), from entry i on.
RECURSIVE RegionResults(_, _, _, _)
RegionResults(region_name, provinces, i, barangay_name) ==
    IF i > Len(provinces.items) THEN <<>>
    ELSE (IF IsDict(provinces.items[i].v)
          THEN ProvinceResults(region_name, provinces.items[i].k,
                               provinces.items[i].v, 1, barangay_name)
          ELSE <<>>)
         \o RegionResults(region_name, provinces, i + 1, barangay_name)

\* for region_name, provinces in barangay.BARANGAY.items(), from entry i on.
RECURSIVE SearchResults(_, _)
SearchResults(i, barangay_name) ==
    IF i > Len(BARANGAY.items) THEN <<>>
    ELSE RegionResults(BARANGAY.items[i].k, BARANGAY.items[i].v, 1, barangay_name)
         \o SearchResults(i + 1, barangay_name)

\* search_barangay without the `if not results` check: an empty result is
\* returned as a success.
search_barangay_return_empty_ok(barangay_name) ==
    LET results == SearchResults(1, barangay_name)
    IN  Ok("search_barangay", <<barangay_name>>,
           [query |-> barangay_name, results |-> results, count |-> Len(results)])

\* GET /search/barangay/{barangay_name}
search_barangay_return(barangay_name) ==
    LET results == SearchResults(1, barangay_name)
        args == <<barangay_name>>
    IN  IF results = <<>>
        THEN NotFound("search_barangay", args, "No barangays", <<barangay_name>>)
        ELSE Ok("search_barangay", args,
                [query |-> barangay_name, results |-> results,
                 count |-> Len(results)])

\* sum(len(provinces) for provinces in barangay.BARANGAY.values())
RECURSIVE total_provinces(_)
total_provinces(i) ==
    IF i > Len(BARANGAY.items) THEN 0
    ELSE PyLen(BARANGAY.items[i].v) + total_provinces(i + 1)

\* What one province-level value adds to total_municipalities.
ProvinceMunicipalities(municipalities) ==
    IF IsDict(municipalities) THEN PyLen(municipalities) ELSE 0

\* The barangay total counting each name of a list once.
RECURSIVE MunicipalitiesBarangays_unique(_, _)
MunicipalitiesBarangays_unique(municipalities, i) ==
    IF i > Len(municipalities.items) THEN 0
    ELSE (IF IsList(municipalities.items[i].v)
          THEN Cardinality({municipalities.items[i].v.items[j] :
                               j \in 1..Len(municipalities.items[i].v.items)})
          ELSE 0)
         + MunicipalitiesBarangays_unique(municipalities, i + 1)

\* What the municipalities of one province add to total_barangays, from entry i on.
RECURSIVE MunicipalitiesBarangays(_, _)
MunicipalitiesBarangays(municipalities, i) ==
    IF i > Len(municipalities.items) THEN 0
    ELSE (IF IsList(municipalities.items[i].v)
          THEN PyLen(municipalities.items[i].v) ELSE 0)
         + MunicipalitiesBarangays(municipalities, i + 1)

\* What one province-level value adds to total_barangays.
ProvinceBarangays(municipalities) ==
    IF IsDict(municipalities) THEN MunicipalitiesBarangays(municipalities, 1) ELSE 0

\* The two totals of the nested loop over one region, from entry i on.
RECURSIVE RegionTotals(_, _)
RegionTotals(provinces, i) ==
    IF i > Len(provinces.items) THEN <<0, 0>>
    ELSE LET rest == RegionTotals(provinces, i + 1)
         IN  <<ProvinceMunicipalities(provinces.items[i].v) + rest[1],
               ProvinceBarangays(provinces.items[i].v) + rest[2]>>

RECURSIVE Totals(_)
Totals(i) ==
    IF i > Len(BARANGAY.items) THEN <<0, 0>>
    ELSE LET here == RegionTotals(BARANGAY.items[i].v, 1)
             rest == Totals(i + 1)
         IN  <<here[1] + rest[1], here[2] + rest[2]>>

\* GET /stats
get_stats_return ==
    Ok("get_stats", <<>>,
       [total_regions |-> PyLen(BARANGAY),
        total_provinces |-> total_provinces(1),
        total_municipalities |-> Totals(1)[1],
        total_barangays |-> Totals(1)[2],
        data_source |-> "Philippines Standard Geographic Code (PSGC) 2025"])

\* --------------------------------------------------------- actions ------
\* The event loop runs one handler at a time; its return value or exception
\* becomes the response.
Idle == response = NoResponse

get_regions ==
    /\ Idle
    /\ response' = get_regions_return
    /\ UNCHANGED BARANGAY

\* get_provinces reading the dataset as a defaultdict does: asking for a
\* region that is missing inserts it.
get_provinces_setdefault(region_name) ==
    /\ Idle
    /\ response' = [op |-> "get_provinces", args |-> <<region_name>>, status |-> 200,
                    body |-> Keys(Get(Ensure(BARANGAY, <<region_name>>, EmptyDict),
                                      region_name))]
    /\ BARANGAY' = Ensure(BARANGAY, <<region_name>>, EmptyDict)

get_provinces(region_name) ==
    /\ Idle
    /\ response' = get_provinces_return(region_name)
    /\ UNCHANGED BARANGAY

get_municipalities(region_name, province_name) ==
    /\ Idle
    /\ response' = get_municipalities_return(region_name, province_name)
    /\ UNCHANGED BARANGAY

get_barangays(region_name, province_name, municipality_name) ==
    /\ Idle
    /\ response' = get_barangays_return(region_name, province_name, municipality_name)
    /\ UNCHANGED BARANGAY

search_barangay(barangay_name) ==
    /\ Idle
    /\ response' = search_barangay_return(barangay_name)
    /\ UNCHANGED BARANGAY

get_stats ==
    /\ Idle
    /\ response' = get_stats_return
    /\ UNCHANGED BARANGAY

\* The framework sends the response; the next request can be handled.
Send ==
    /\ ~Idle
    /\ response' = NoResponse
    /\ UNCHANGED BARANGAY

\* `import barangay`: the dataset is whatever the package holds.
Init ==
    /\ BARANGAY \in Datasets
    /\ response = NoResponse

Next ==
    \/ get_regions
    \/ \E region_name \in RegionKeys : get_provinces(region_name)
    \/ \E region_name \in RegionKeys, province_name \in ProvinceKeys :
          get_municipalities(region_name, province_name)
    \/ \E region_name \in RegionKeys, province_name \in ProvinceKeys,
          municipality_name \in MunicipalityKeys :
          get_barangays(region_name, province_name, municipality_name)
    \/ \E barangay_name \in Queries : search_barangay(barangay_name)
    \/ get_stats
    \/ Send

Spec == Init /\ [][Next]_vars


\* ------------------------------------------- the dataset, by position ---
\* The four levels of the data model, addressed by position: a region, a
\* province of a region, a municipality of a province that is a mapping, a
\* barangay of a municipality that is a list.
RegionAt(ri) == BARANGAY.items[ri]
ProvinceAt(ri, pi) == RegionAt(ri).v.items[pi]
MunicipalityAt(ri, pi, mi) == ProvinceAt(ri, pi).v.items[mi]
BarangayAt(t) == MunicipalityAt(t[1], t[2], t[3]).v.items[t[4]]

RegionIdx == 1..Len(BARANGAY.items)

ProvincePairs ==
    UNION {{<<ri, pi>> : pi \in 1..Len(RegionAt(ri).v.items)} : ri \in RegionIdx}

MunicipalityTriples ==
    UNION {IF ProvinceAt(rp[1], rp[2]).v.type = "dict"
           THEN {<<rp[1], rp[2], mi>> :
                    mi \in 1..Len(ProvinceAt(rp[1], rp[2]).v.items)}
           ELSE {} : rp \in ProvincePairs}

Occurrences ==
    UNION {IF MunicipalityAt(t[1], t[2], t[3]).v.type = "list"
           THEN {<<t[1], t[2], t[3], bi>> :
                    bi \in 1..Len(MunicipalityAt(t[1], t[2], t[3]).v.items)}
           ELSE {} : t \in MunicipalityTriples}

\* Every province is a mapping and every municipality a list.
WellFormed ==
    /\ \A rp \in ProvincePairs : ProvinceAt(rp[1], rp[2]).v.type = "dict"
    /\ \A t \in MunicipalityTriples : MunicipalityAt(t[1], t[2], t[3]).v.type = "list"

HasRegion(r) == \E ri \in RegionIdx : RegionAt(ri).k = r
HasProvince(r, p) ==
    \E rp \in ProvincePairs : RegionAt(rp[1]).k = r /\ ProvinceAt(rp[1], rp[2]).k = p
ProvinceIsMapping(r, p) ==
    \E rp \in ProvincePairs :
        /\ RegionAt(rp[1]).k = r /\ ProvinceAt(rp[1], rp[2]).k = p
        /\ ProvinceAt(rp[1], rp[2]).v.type = "dict"
HasMunicipality(r, p, m) ==
    \E t \in MunicipalityTriples :
        /\ RegionAt(t[1]).k = r /\ ProvinceAt(t[1], t[2]).k = p
        /\ MunicipalityAt(t[1], t[2], t[3]).k = m

\* x occurs in y at some position.
OccursIn(x, y) ==
    \E i \in 0..(Len(y) - Len(x)) : \A j \in 1..Len(x) : y[i + j] = x[j]

\* The occurrences whose lowercased name contains the lowercased query.
Matches(q) == {t \in Occurrences : OccursIn(Lower(q), Lower(BarangayAt(t)))}

\* Traversal order: by region, then province, then municipality, then barangay.
Before(u, t) ==
    \E k \in 1..4 : u[k] < t[k] /\ \A j \in 1..(k - 1) : u[j] = t[j]

RecordOf(t) ==
    [barangay |-> BarangayAt(t),
     municipality |-> MunicipalityAt(t[1], t[2], t[3]).k,
     province |-> ProvinceAt(t[1], t[2]).k,
     region |-> RegionAt(t[1]).k]

\* The records of the occurrences S, one each, in traversal order.
InTraversalOrder(S) ==
    [k \in 1..Cardinality(S) |->
        RecordOf(CHOOSE t \in S : Cardinality({u \in S : Before(u, t)}) = k - 1)]

Range(f) == {f[i] : i \in DOMAIN f}

IsLookup == response.op \in {"get_provinces", "get_municipalities", "get_barangays"}
IsNotFound == response.status = 404
IsSearch == response.op = "search_barangay"
IsStats == response.op = "get_stats"

\* ---------------------------------------------------------- claims ------
\* C1: listBarangays and listMunicipalities fail with NotFound at the first
\* missing level, region before province before municipality: a missing
\* region is named whatever the deeper arguments are, a missing province
\* under a present region is named whatever the municipality is, and the
\* municipality is reported only when region and province both exist.
C1_FirstMissingLevel ==
    response.op \in {"get_municipalities", "get_barangays"} =>
        LET r == response.args[1]
            p == response.args[2]
        IN  /\ ~HasRegion(r) =>
                /\ IsNotFound
                /\ response.detail.template = "Region"
                /\ r \in Range(response.detail.values)
            /\ (HasRegion(r) /\ ~HasProvince(r, p)) =>
                /\ IsNotFound
                /\ response.detail.template = "Province"
                /\ p \in Range(response.detail.values)
            /\ (HasRegion(r) /\ HasProvince(r, p)) =>
                ~(IsNotFound /\ response.detail.template \in {"Region", "Province"})
            /\ response.op = "get_barangays" =>
                LET m == response.args[3]
                IN  /\ (IsNotFound /\ response.detail.template = "Municipality") =>
                        HasRegion(r) /\ HasProvince(r, p) /\ ~HasMunicipality(r, p, m)
                    /\ (ProvinceIsMapping(r, p) /\ ~HasMunicipality(r, p, m)) =>
                        /\ IsNotFound
                        /\ response.detail.template = "Municipality"
                        /\ m \in Range(response.detail.values)
                    /\ HasMunicipality(r, p, m) => ~IsNotFound

\* A missing region is reported although the province and the municipality
\* asked for exist under another region.
C1_Witness ==
    /\ response.op = "get_barangays"
    /\ IsNotFound
    /\ response.detail.template = "Region"
    /\ \E t \in MunicipalityTriples :
          /\ ProvinceAt(t[1], t[2]).k = response.args[2]
          /\ MunicipalityAt(t[1], t[2], t[3]).k = response.args[3]

\* The level a NotFound reports, as a position in the arguments.
Level ==
    CASE response.detail.template = "Region" -> 1
      [] response.detail.template = "Province" -> 2
      [] response.detail.template = "Municipality" -> 3

\* C2 as stated: every NotFound of a lookup carries the full path of the
\* identifiers supplied up to and including the missing level.
C2_FullPath ==
    (IsLookup /\ IsNotFound) =>
        Range(response.detail.values) = Range(SubSeq(response.args, 1, Level))

\* C2 as amended: every NotFound of a lookup carries the missing identifier
\* and, below the region level, its immediate parent only: (region),
\* (province, region), (municipality, province).
C2_MissingAndParent ==
    (IsLookup /\ IsNotFound) =>
        response.detail.values =
            IF Level = 1 THEN <<response.args[1]>>
            ELSE <<response.args[Level], response.args[Level - 1]>>

C2_Witness ==
    /\ response.op = "get_barangays"
    /\ IsNotFound
    /\ response.detail.template = "Municipality"

\* C3 as stated: search("") succeeds and returns one record for every
\* barangay occurrence, in traversal order, as many as stats().barangayCount.
C3_EmptyQueryAll ==
    (IsSearch /\ response.args = <<<<>>>>) =>
        /\ response.status = 200
        /\ response.body.results = InTraversalOrder(Occurrences)
        /\ response.body.count = get_stats_return.body.total_barangays

\* C3 as amended: on a dataset with at least one barangay search("") succeeds
\* and returns one record for every barangay occurrence, in traversal order,
\* as many as stats().barangayCount; on a dataset with no barangay it fails
\* with NoMatches("").
C3_EmptyQueryAllOrNoMatches ==
    (IsSearch /\ response.args = <<<<>>>>) =>
        IF Occurrences # {}
        THEN /\ response.status = 200
             /\ response.body.results = InTraversalOrder(Occurrences)
             /\ response.body.count = get_stats_return.body.total_barangays
             /\ Len(response.body.results) = response.body.count
        ELSE /\ IsNotFound
             /\ response.detail.values = <<<<>>>>
             /\ get_stats_return.body.total_barangays = 0

C3_Witness ==
    /\ IsSearch /\ response.args = <<<<>>>>
    /\ response.status = 200
    /\ response.body.count = 2
    /\ response.body.results[1].region # response.body.results[2].region

\* C4: search(query) fails with NoMatches(query) exactly when no barangay
\* contains the lowercased query in its lowercased name; a success never
\* carries an empty record sequence and a failure carries no records.
C4_NoMatchesIff ==
    IsSearch =>
        /\ response.status \in {200, 404}
        /\ IsNotFound <=> (Matches(response.args[1]) = {})
        /\ IsNotFound =>
            /\ response.detail.template = "No barangays"
            /\ response.detail.values = response.args
            /\ "body" \notin DOMAIN response
        /\ response.status = 200 => response.body.results # <<>>

\* A query that matches nothing in a dataset that has barangays.
C4_Witness ==
    /\ IsSearch /\ IsNotFound
    /\ Occurrences # {}
    /\ response.args[1] # <<>>

\* C5: the records of a successful search are exactly the matching barangay
\* occurrences, one per occurrence, each with the municipality, province and
\* region it is under, in traversal order.
C5_ExactlyMatchesInOrder ==
    (IsSearch /\ response.status = 200) =>
        response.body.results = InTraversalOrder(Matches(response.args[1]))

\* A name listed twice in one municipality gives two records.
C5_Witness ==
    /\ IsSearch /\ response.status = 200
    /\ response.args[1] # <<>>
    /\ \E i, j \in 1..Len(response.body.results) :
          /\ i < j
          /\ response.body.results[i] = response.body.results[j]

\* C6: two queries equal after lowercasing have the same outcome: the same
\* records in the same order, or NoMatches for both.  Stated against the
\* lowercased form of the query, which every query equal after lowercasing
\* shares: each has the outcome of that one query.
C6_CaseInsensitive ==
    IsSearch =>
        LET other == search_barangay_return(Lower(response.args[1]))
        IN  /\ Lower(response.args[1]) \in Queries
            /\ other.status = response.status
            /\ response.status = 200 =>
                  other.body.results = response.body.results

\* A query with an uppercase letter finds a name.
C6_Witness ==
    /\ IsSearch /\ response.status = 200
    /\ response.args[1] # Lower(response.args[1])

\* The provinces listProvinces gives for the r-th region of listRegions, and
\* the municipalities listMunicipalities gives for the p-th of them.
ListedProvinces(r) == get_provinces_return(get_regions_return.body.items[r])
ListedMunicipalities(r, p) ==
    get_municipalities_return(get_regions_return.body.items[r],
                              ListedProvinces(r).body.items[p])
ListedBarangays(r, p, m) ==
    get_barangays_return(get_regions_return.body.items[r],
                         ListedProvinces(r).body.items[p],
                         ListedMunicipalities(r, p).body.items[m])

\* Every lookup enumerated from listRegions, listProvinces and
\* listMunicipalities succeeds.
EnumerationSucceeds ==
    \A r \in 1..Len(get_regions_return.body.items) :
        /\ ListedProvinces(r).status = 200
        /\ \A p \in 1..Len(ListedProvinces(r).body.items) :
            /\ ListedMunicipalities(r, p).status = 200
            /\ \A m \in 1..Len(ListedMunicipalities(r, p).body.items) :
                  ListedBarangays(r, p, m).status = 200

\* One element per position of every sequence listBarangays returns: their
\* number is the sum of the lengths.
EnumeratedBarangays ==
    UNION {UNION {UNION {
        {<<r, p, m, i>> : i \in 1..Len(ListedBarangays(r, p, m).body.items)}
        : m \in 1..Len(ListedMunicipalities(r, p).body.items)}
        : p \in 1..Len(ListedProvinces(r).body.items)}
        : r \in 1..Len(get_regions_return.body.items)}

\* C7: stats().barangayCount is the sum of the lengths of listBarangays(r, p, m)
\* over every triple enumerated by listRegions, listProvinces and
\* listMunicipalities, and each of those lookups succeeds.
C7_CountIsSumOfLookups ==
    IsStats =>
        /\ EnumerationSucceeds
        /\ response.body.total_barangays = Cardinality(EnumeratedBarangays)

\* C8: a dataset with a province that is no mapping or a municipality that is
\* no list is rejected at load, so no search or stats call runs over one.
C8_MalformedRejected ==
    (response.op \in {"search_barangay", "get_stats"} /\ response.status = 200) =>
        WellFormed

\* C9: no handler changes the dataset, whether it succeeds or fails.
C9_DatasetUnchanged == [][BARANGAY' = BARANGAY]_vars

\* A lookup has returned the stored barangay list itself, and it is not empty.
C9_Witness ==
    /\ response.op = "get_barangays"
    /\ response.status = 200
    /\ response.body.type = "list"
    /\ response.body.items # <<>>

\* C10: stats() never fails; regionCount is the number of top-level keys,
\* provinceCount the number of provinces over all regions, municipalityCount
\* the number of municipalities over all provinces, barangayCount the number
\* of list positions over all municipalities (duplicates counted); all four
\* are zero on the empty dataset.
C10_Counts ==
    IsStats =>
        /\ response.status = 200
        /\ response.body.total_regions = Cardinality(RegionIdx)
        /\ response.body.total_provinces = Cardinality(ProvincePairs)
        /\ response.body.total_municipalities = Cardinality(MunicipalityTriples)
        /\ response.body.total_barangays = Cardinality(Occurrences)
        /\ BARANGAY = EmptyDict =>
              /\ response.body.total_regions = 0
              /\ response.body.total_provinces = 0
              /\ response.body.total_municipalities = 0
              /\ response.body.total_barangays = 0

\* The count of a municipality that lists the same name twice.
C10_Witness ==
    /\ IsStats
    /\ response.body.total_barangays = 2
    /\ \E t, u \in Occurrences :
          t # u /\ SubSeq(t, 1, 3) = SubSeq(u, 1, 3) /\ BarangayAt(t) = BarangayAt(u)

====
